---- MODULE Spec2Model ----
(***************************************************************************)
(* Identity-resolution core of the optical-retail pipeline:                *)
(*   - Account-Identifier Parser   (extract_business_info)                 *)
(*   - Business-ID Assigner        (process_df_accounts and its copies)    *)
(*   - Business-ID propagation     (map_business_id_to_df3)                *)
(*   - Matcher / Similarity Scorer (find_best_matches)                     *)
(*                                                                         *)
(* Python strings are sequences of one-character strings.  A null cell     *)
(* (None / NaN) is the one-element sequence NaN, which no string over the  *)
(* model's alphabet equals.                                                *)
(***************************************************************************)
EXTENDS Integers, Sequences, FiniteSets, TLC

VARIABLES
    \* ---- Account-Identifier Parser ----
    account_no,       \* the argument of extract_business_info
    parsed,           \* <<base_number, suffix, account_type>> once returned
    ppc,              \* "input" | "parsed"
    \* ---- Business-ID Assigner and propagation ----
    df,               \* customer dataset as loaded: rows [AccountNo, Customer]
    customer_df,      \* customer dataset after the assigner added its columns
    sales_df,         \* sales dataset as loaded: rows [Name]
    sales_out,        \* sales dataset returned by map_business_id_to_df3
    assigner,         \* which assigner processed df
    bpc,              \* "load" | "processed" | "mapped"
    \* ---- Matcher ----
    customer_data,    \* rows [Customer, MainEmail, customer_name_clean]
    has_clean_col,    \* customer_data came with a customer_name_clean column
    email_data,       \* rows [extracted_business, email_domain]
    fuzz_backend,     \* SequenceMatcher behind fuzz.ratio in this install
    threshold,        \* the threshold passed to find_best_matches
    customer_cols,    \* columns find_best_matches adds to customer_data
    email_norm,       \* column normalized_business added to email_data
    matches,          \* the rows of matches_df
    final_dataset,    \* the rows create_final_matched_dataset returned
    mpc,              \* "load" | "matched"
    \* ---- one call of a string function (normalizer, cleaner, scorer) ----
    arg1,             \* first argument
    arg2,             \* second argument, NaN when the function takes one
    out,              \* what the call returned
    cpc,              \* "input" | the name of the function that returned
    \* ---- one run of a pipeline entry point ----
    entry,            \* the entry point that runs
    inputs,           \* input file name |-> "present" | "missing" | "unreadable"
    outputs,          \* output file name |-> "absent" | "old" | "new"
    rpc,              \* position of the run
    printed,          \* the messages printed so far
    ret,              \* "running" | "None" | "tuple" | the exception that escaped
    read_error,       \* "none" | the exception a pd.read_csv raised
    absent_column,    \* "none" | a required column the input data lacks
    quality,          \* "none" | the quality outcome of matching or mapping
    write_error,      \* TRUE once a to_csv has raised
    \* ---- optical-name generation, executed in two processes ----
    unique_business_ids, \* the list passed to create_business_id_to_optical_mapping
    rng,              \* np.random: seed |-> the stream of (adjective, noun) draws
    hash1,            \* hash(str(business_id)) % 2147483647 in the first process
    hash2,            \* the same in the second process
    optical1,         \* business_id_to_optical returned in the first process
    optical2          \* business_id_to_optical returned in the second process

parseVars == <<account_no, parsed, ppc>>
bizVars == <<df, customer_df, sales_df, sales_out, assigner, bpc>>
matchVars == <<customer_data, has_clean_col, email_data, fuzz_backend,
               threshold, customer_cols, email_norm, matches, final_dataset, mpc>>
callVars == <<arg1, arg2, out, cpc>>
runVars == <<entry, inputs, outputs, rpc, printed, ret, read_error,
            absent_column, quality, write_error>>
optVars == <<unique_business_ids, rng, hash1, hash2, optical1, optical2>>
vars == <<account_no, parsed, ppc,
          df, customer_df, sales_df, sales_out, assigner, bpc,
          customer_data, has_clean_col, email_data, fuzz_backend,
          threshold, customer_cols, email_norm, matches, final_dataset, mpc,
          arg1, arg2, out, cpc,
          entry, inputs, outputs, rpc, printed, ret, read_error,
          absent_column, quality, write_error,
          unique_business_ids, rng, hash1, hash2, optical1, optical2>>

(***************************************************************************)
(* Characters and strings                                                  *)
(***************************************************************************)
NaN == <<"NaN">>

isna(x) == x = NaN

LowerLetters == <<"a","b","c","d","e","f","g","h","i","j","k","l","m",
                  "n","o","p","q","r","s","t","u","v","w","x","y","z">>
UpperLetters == <<"A","B","C","D","E","F","G","H","I","J","K","L","M",
                  "N","O","P","Q","R","S","T","U","V","W","X","Y","Z">>
DigitChars == <<"0","1","2","3","4","5","6","7","8","9">>

Range(f) == {f[i] : i \in DOMAIN f}

IsDigit(c) == c \in Range(DigitChars)
IsLower(c) == c \in Range(LowerLetters)
IsUpper(c) == c \in Range(UpperLetters)
IsAsciiLetter(c) == IsLower(c) \/ IsUpper(c)
IsSpace(c) == c \in {" ", "\n", "\t"}
IsWord(c) == IsAsciiLetter(c) \/ IsDigit(c) \/ c = "_"

IndexIn(f, c) == CHOOSE i \in DOMAIN f : f[i] = c

\* str.upper() / str.lower() on one character
UpperChar(c) == IF IsLower(c) THEN UpperLetters[IndexIn(LowerLetters, c)] ELSE c
LowerChar(c) == IF IsUpper(c) THEN LowerLetters[IndexIn(UpperLetters, c)] ELSE c

upper(s) == [i \in 1..Len(s) |-> UpperChar(s[i])]
lower(s) == [i \in 1..Len(s) |-> LowerChar(s[i])]

\* str(x): a null cell prints as 'nan'
str(x) == IF isna(x) THEN <<"n","a","n">> ELSE x

\* Unicode code point of the characters the model uses (string ordering)
Ord(c) ==
    IF IsDigit(c) THEN 47 + IndexIn(DigitChars, c)
    ELSE IF IsUpper(c) THEN 64 + IndexIn(UpperLetters, c)
    ELSE IF IsLower(c) THEN 96 + IndexIn(LowerLetters, c)
    ELSE CASE c = "\t" -> 9
           [] c = "\n" -> 10
           [] c = " "  -> 32
           [] c = "#"  -> 35
           [] c = "&"  -> 38
           [] c = "-"  -> 45
           [] c = "."  -> 46
           [] c = "@"  -> 64
           [] c = "_"  -> 95
           [] OTHER    -> 127

\* s[from..] (1-based), the empty string when from is past the end
Tail_from(s, from) == SubSeq(s, from, Len(s))

\* length of the longest prefix of s whose characters all satisfy the class
RECURSIVE RunLen(_, _)
RunLen(s, cls) ==
    IF s = <<>> \/ s[1] \notin cls THEN 0 ELSE 1 + RunLen(Tail(s), cls)

\* All strings over alphabet A of length 0..n
RECURSIVE StringsUpTo(_, _)
StringsUpTo(A, n) ==
    IF n = 0 THEN {<<>>}
    ELSE LET shorter == StringsUpTo(A, n - 1)
         IN  shorter \cup {Append(s, c) : s \in shorter, c \in A}

(***************************************************************************)
(* Account-Identifier Parser: extract_business_info                        *)
(***************************************************************************)
AsciiLetterSet == Range(LowerLetters) \cup Range(UpperLetters)
DigitSet == Range(DigitChars)

\* re.match(r'(\d+)([A-Za-z]*)$', s): anchored at the start, both groups
\* greedy; '$' matches at the end of the string and also just before a
\* newline that is the last character.  Returns <<matched, group1, group2>>.
AccountMatch(s) ==
    LET nd   == RunLen(s, DigitSet)
        rest == Tail_from(s, nd + 1)
        nl   == RunLen(rest, AsciiLetterSet)
        end  == Tail_from(rest, nl + 1)
    IN  IF nd >= 1 /\ (end = <<>> \/ end = <<"\n">>)
        THEN <<TRUE, SubSeq(s, 1, nd), SubSeq(rest, 1, nl)>>
        ELSE <<FALSE, <<>>, <<>>>>

T_Accessory == <<"A","c","c","e","s","s","o","r","y">>
T_Frame     == <<"F","r","a","m","e">>
T_Surface   == <<"S","u","r","f","a","c","e">>
T_BrandLens == <<"B","r","a","n","d"," ","L","e","n","s">>
T_Edging    == <<"E","d","g","i","n","g">>
T_Lens      == <<"L","e","n","s">>
T_Other     == <<"O","t","h","e","r">>
T_Unknown   == <<"U","n","k","n","o","w","n">>

\* a lookup without the 'Other' default: an unlisted suffix stands for itself
account_type_map_no_default(suffix) ==
    CASE suffix = <<"A">> -> T_Accessory
      [] suffix = <<"F">> -> T_Frame
      [] suffix = <<"K">> -> T_Surface
      [] suffix = <<"S">> -> T_BrandLens
      [] suffix = <<"E">> -> T_Edging
      [] suffix = <<>>    -> T_Lens
      [] OTHER            -> suffix

\* account_type_map.get(suffix, 'Other')
account_type_map(suffix) ==
    CASE suffix = <<"A">> -> T_Accessory
      [] suffix = <<"F">> -> T_Frame
      [] suffix = <<"K">> -> T_Surface
      [] suffix = <<"S">> -> T_BrandLens
      [] suffix = <<"E">> -> T_Edging
      [] suffix = <<>>    -> T_Lens
      [] OTHER            -> T_Other

\* A parser that forgets .upper() on the suffix
extract_business_info_keepcase(acct) ==
    IF isna(acct) THEN <<NaN, NaN, NaN>>
    ELSE LET account_str == str(acct)
             m == AccountMatch(account_str)
         IN  IF m[1]
             THEN <<m[2], m[3], account_type_map(upper(m[3]))>>
             ELSE <<account_str, <<>>, T_Unknown>>

extract_business_info(acct) ==
    IF isna(acct) THEN <<NaN, NaN, NaN>>
    ELSE LET account_str == str(acct)
             m == AccountMatch(account_str)
         IN  IF m[1]
             THEN LET suffix == IF m[3] # <<>> THEN upper(m[3]) ELSE <<>>
                  IN  <<m[2], suffix, account_type_map(suffix)>>
             ELSE <<account_str, <<>>, T_Unknown>>

(***************************************************************************)
(* Specification of the parser: one call on an arbitrary account value     *)
(***************************************************************************)
MaxAcctLen == 3
AcctAlphabet == {"1", "3", "A", "s", "Z", "\n", "-"}
AccountValues == StringsUpTo(AcctAlphabet, MaxAcctLen) \cup {NaN}

CallIdle ==
    /\ arg1 = NaN
    /\ arg2 = NaN
    /\ out = NaN
    /\ cpc = "idle"

RunIdle ==
    /\ entry = "none"
    /\ inputs = <<>>
    /\ outputs = <<>>
    /\ rpc = "idle"
    /\ printed = <<>>
    /\ ret = "none"
    /\ read_error = "none"
    /\ absent_column = "none"
    /\ quality = "none"
    /\ write_error = FALSE

\* the value of optical1, optical2 before the function has returned
NotRun == [b \in {"not run"} |-> <<>>]

OptIdle ==
    /\ unique_business_ids = <<>>
    /\ rng = <<>>
    /\ hash1 = <<>>
    /\ hash2 = <<>>
    /\ optical1 = NotRun
    /\ optical2 = NotRun

BizIdle ==
    /\ df = <<>>
    /\ customer_df = <<>>
    /\ sales_df = <<>>
    /\ sales_out = <<>>
    /\ assigner = "none"
    /\ bpc = "idle"

MatchIdle ==
    /\ customer_data = <<>>
    /\ has_clean_col = FALSE
    /\ email_data = <<>>
    /\ fuzz_backend = "none"
    /\ threshold = 0
    /\ customer_cols = <<>>
    /\ email_norm = <<>>
    /\ matches = <<>>
    /\ final_dataset = <<>>
    /\ mpc = "idle"

ParseInit ==
    /\ account_no \in AccountValues
    /\ parsed = <<NaN, NaN, NaN>>
    /\ ppc = "input"
    /\ BizIdle
    /\ OptIdle
    /\ RunIdle
    /\ MatchIdle
    /\ CallIdle

Parse ==
    /\ ppc = "input"
    /\ parsed' = extract_business_info(account_no)
    /\ ppc' = "parsed"
    /\ UNCHANGED account_no
    /\ UNCHANGED bizVars
    /\ UNCHANGED optVars
    /\ UNCHANGED runVars
    /\ UNCHANGED callVars
    /\ UNCHANGED matchVars

ParseNext == Parse

SpecParse == ParseInit /\ [][ParseNext]_vars

(***************************************************************************)
(* Properties of the parser                                                *)
(***************************************************************************)
\* "<digits><optional letters>": one or more digits, then ASCII letters only
IsDigitsLetters(s) ==
    /\ ~isna(s)
    /\ \E k \in 1..Len(s) :
          /\ \A i \in 1..k : IsDigit(s[i])
          /\ \A i \in (k + 1)..Len(s) : IsAsciiLetter(s[i])

\* The reference parser of the specification, section 4.1
ReferenceParse(s) ==
    IF IsDigitsLetters(s)
    THEN LET k == CHOOSE k \in 1..Len(s) :
                     /\ \A i \in 1..k : IsDigit(s[i])
                     /\ \A i \in (k + 1)..Len(s) : ~IsDigit(s[i])
             letters == upper(SubSeq(s, k + 1, Len(s)))
         IN  <<SubSeq(s, 1, k), letters,
               CASE letters = <<"A">> -> T_Accessory
                 [] letters = <<"F">> -> T_Frame
                 [] letters = <<"K">> -> T_Surface
                 [] letters = <<"S">> -> T_BrandLens
                 [] letters = <<"E">> -> T_Edging
                 [] letters = <<>>    -> T_Lens
                 [] OTHER             -> T_Other>>
    ELSE <<s, <<>>, T_Unknown>>

\* C9: for every non-null account value extract_business_info returns what
\* the reference parser returns: (digit prefix, uppercased letters, type) for
\* <digits><letters>, and (original string, "", "Unknown") for anything else.
C9_ParserEqualsReference ==
    (ppc = "parsed" /\ ~isna(account_no))
        => parsed = ReferenceParse(str(account_no))

\* C10 as stated: for every <digits><optional letters> account string,
\* base_number + suffix is the original string exactly.
C10_RoundTripExact ==
    (ppc = "parsed" /\ IsDigitsLetters(account_no))
        => parsed[1] \o parsed[2] = account_no

\* C10 amended: for every <digits><optional letters> account string,
\* base_number + suffix is the original string with its letters uppercased.
C10_RoundTripUpper ==
    (ppc = "parsed" /\ IsDigitsLetters(account_no))
        => parsed[1] \o parsed[2] = upper(account_no)

\* a parsed account string that carries a lowercase letter suffix
C10_Witness ==
    /\ ppc = "parsed"
    /\ IsDigitsLetters(account_no)
    /\ \E i \in 1..Len(account_no) : IsLower(account_no[i])
    /\ parsed[2] # <<>>

AccountTypes ==
    {T_Accessory, T_Frame, T_Surface, T_BrandLens, T_Edging, T_Lens, T_Other,
     T_Unknown}

\* C11 as stated: for all inputs, null included, the returned account_type
\* is one of Accessory, Frame, Surface, Brand Lens, Edging, Lens, Other,
\* Unknown.
C11_TypeInCategoriesAllInputs ==
    ppc = "parsed" => parsed[3] \in AccountTypes

\* C11 amended: for every non-null input the returned account_type is one of
\* the eight categories; for a null input it is null.
C11_TypeInCategoriesNonNull ==
    ppc = "parsed" =>
        IF isna(account_no) THEN isna(parsed[3])
        ELSE parsed[3] \in AccountTypes

\* a matched account number whose suffix is not in the map
C11_Witness ==
    /\ ppc = "parsed"
    /\ IsDigitsLetters(account_no)
    /\ parsed[2] \notin {<<>>, <<"A">>, <<"F">>, <<"K">>, <<"S">>, <<"E">>}
    /\ parsed[3] = T_Other

\* C12: whenever the account value is non-null, the empty string and
\* non-matching strings included, the returned base_number is a non-empty
\* string.
C12_BaseNonEmpty ==
    (ppc = "parsed" /\ ~isna(account_no))
        => (~isna(parsed[1]) /\ parsed[1] # <<>>)

(***************************************************************************)
(* String helpers shared by the assigner and the name cleaning             *)
(***************************************************************************)
\* a < b in Python's string order (code point by code point, prefix first)
RECURSIVE StrLess(_, _)
StrLess(a, b) ==
    IF b = <<>> THEN FALSE
    ELSE IF a = <<>> THEN TRUE
    ELSE IF a[1] # b[1] THEN Ord(a[1]) < Ord(b[1])
    ELSE StrLess(Tail(a), Tail(b))

\* sorted(S) for a set of strings
RECURSIVE sorted(_)
sorted(S) ==
    IF S = {} THEN <<>>
    ELSE LET m == CHOOSE x \in S : \A y \in S \ {x} : StrLess(x, y)
         IN  <<m>> \o sorted(S \ {m})

\* Series.dropna().unique(): the non-null values in order of first appearance
RECURSIVE unique(_)
unique(col) ==
    IF col = <<>> THEN <<>>
    ELSE LET n == Len(col)
             before == unique(SubSeq(col, 1, n - 1))
         IN  IF isna(col[n]) \/ col[n] \in Range(before)
             THEN before ELSE Append(before, col[n])

\* decimal digits of a natural number
RECURSIVE DecDigits(_)
DecDigits(n) ==
    IF n < 10 THEN <<DigitChars[n + 1]>>
    ELSE Append(DecDigits(n \div 10), DigitChars[(n % 10) + 1])

\* f"{n:04d}": zero-padded to a minimum width of four
Format04d(n) ==
    LET d == DecDigits(n)
    IN  IF Len(d) >= 4 THEN d ELSE [i \in 1..(4 - Len(d)) |-> "0"] \o d

BUS_ == <<"B","U","S","_">>

SetMinIndex(S) == CHOOSE m \in S : \A x \in S : m <= x

\* str.strip()
RECURSIVE lstrip(_)
lstrip(s) == IF s # <<>> /\ IsSpace(s[1]) THEN lstrip(Tail(s)) ELSE s

RECURSIVE rstrip(_)
rstrip(s) ==
    IF s # <<>> /\ IsSpace(s[Len(s)]) THEN rstrip(SubSeq(s, 1, Len(s) - 1)) ELSE s

strip(s) == lstrip(rstrip(s))

\* the regex \s*#\d+[A-Za-z]*$ matches s from position i on
TagMatchesAt(s, i) ==
    LET t    == Tail_from(s, i)
        ns   == RunLen(t, {" ", "\n", "\t"})
        t1   == Tail_from(t, ns + 1)
        t2   == IF t1 # <<>> /\ t1[1] = "#" THEN Tail(t1) ELSE <<>>
        nd   == RunLen(t2, DigitSet)
        t3   == Tail_from(t2, nd + 1)
        nl   == RunLen(t3, AsciiLetterSet)
        end  == Tail_from(t3, nl + 1)
    IN  /\ t1 # <<>> /\ t1[1] = "#"
        /\ nd >= 1
        /\ (end = <<>> \/ end = <<"\n">>)

\* a substitution that cuts the name at its first '#', whatever follows it
sub_account_tag_any_hash(s) ==
    IF "#" \in Range(s)
    THEN SubSeq(s, 1, SetMinIndex({i \in 1..Len(s) : s[i] = "#"}) - 1)
    ELSE s

\* re.sub(r'\s*#\d+[A-Za-z]*$', '', s): the leftmost match is removed; what
\* follows it is at most the final newline, where the pattern cannot match
\* again
sub_account_tag(s) ==
    IF \E i \in 1..Len(s) : TagMatchesAt(s, i)
    THEN LET i == CHOOSE i \in 1..Len(s) :
                     /\ TagMatchesAt(s, i)
                     /\ \A j \in 1..(i - 1) : ~TagMatchesAt(s, j)
         IN  SubSeq(s, 1, i - 1)
                 \o (IF s[Len(s)] = "\n" THEN <<"\n">> ELSE <<>>)
    ELSE s

\* map_business_id_to_df3.extract_customer_name
extract_customer_name(name) ==
    IF isna(name) THEN NaN ELSE strip(sub_account_tag(str(name)))

\* data_utils.clean_customer_name
clean_customer_name(customer_name) ==
    IF isna(customer_name) THEN NaN
    ELSE strip(sub_account_tag(str(customer_name)))

(***************************************************************************)
(* Business-ID Assigner                                                    *)
(***************************************************************************)
\* df[['base_account','suffix','account_type']] = df['Account No.'].apply(...)
WithBusinessInfo(rows) ==
    [i \in 1..Len(rows) |->
        LET info == extract_business_info(rows[i].AccountNo)
        IN  rows[i] @@ [base_account |-> info[1], suffix |-> info[2],
                        account_type |-> info[3]]]

Column(rows, name) == [i \in 1..Len(rows) |-> rows[i][name]]

\* an ID map that enumerates the unique base accounts without sorting them
business_id_map_unsorted(unique_base_accounts, prefix) ==
    [i \in 1..Len(unique_base_accounts) |->
        <<unique_base_accounts[i], prefix \o Format04d(i)>>]

\* {base: f"BUS_{i+1:04d}" for i, base in enumerate(sorted(unique_base_accounts))}
\* as the sequence of its <<key, value>> items
business_id_map(unique_base_accounts, prefix) ==
    LET s == sorted(Range(unique_base_accounts))
    IN  [i \in 1..Len(s) |-> <<s[i], prefix \o Format04d(i)>>]

\* Series.map(dict): the value of the key, null when the key is absent
MapLookup(items, key) ==
    IF \E i \in 1..Len(items) : items[i][1] = key
    THEN items[CHOOSE i \in 1..Len(items) : items[i][1] = key][2]
    ELSE NaN

\* the column that is mapped through the dict, here by mistake 'Account No.'
map_key_account_no(row) == str(row.AccountNo)

\* df['business_id'] = df['base_account'].map(business_id_map)
map_key(row) == row.base_account

\* groupby('business_id')['business_id'].transform('count') > 1
GroupCount(rows, i) ==
    IF isna(rows[i].business_id) THEN 0
    ELSE Cardinality({j \in 1..Len(rows) : rows[j].business_id = rows[i].business_id})

\* df['business_id'] = df[...].map(business_id_map)
WithBusinessId(rows, prefix) ==
    LET bmap == business_id_map(unique(Column(rows, "base_account")), prefix)
    IN  [i \in 1..Len(rows) |->
            rows[i] @@ [business_id |-> MapLookup(bmap, map_key(rows[i]))]]

\* df['is_main_account'], df['has_multiple_accounts']
WithFlags(rows) ==
    [i \in 1..Len(rows) |->
        rows[i] @@ [is_main_account |-> (rows[i].suffix = <<>>),
                    has_multiple_accounts |-> (GroupCount(rows, i) > 1)]]

AssignBusinessIds(rows, prefix) ==
    WithFlags(WithBusinessId(WithBusinessInfo(rows), prefix))

(***************************************************************************)
(* Propagation to the sales dataset: map_business_id_to_df3                *)
(***************************************************************************)
\* customer_df[['Customer', 'business_id']].drop_duplicates()
RECURSIVE drop_duplicates(_)
drop_duplicates(pairs) ==
    IF pairs = <<>> THEN <<>>
    ELSE LET n == Len(pairs)
             before == drop_duplicates(SubSeq(pairs, 1, n - 1))
         IN  IF pairs[n] \in Range(before) THEN before ELSE Append(before, pairs[n])

customer_business_map(cdf) ==
    drop_duplicates([i \in 1..Len(cdf) |->
        [Customer |-> cdf[i].Customer, business_id |-> cdf[i].business_id]])

\* the right rows whose key equals the left key, in right order (pandas
\* joins a null key with a null key)
RECURSIVE RightMatches(_, _)
RightMatches(key, right) ==
    IF right = <<>> THEN <<>>
    ELSE LET n == Len(right)
             before == RightMatches(key, SubSeq(right, 1, n - 1))
         IN  IF right[n].Customer = key THEN Append(before, right[n]) ELSE before

JoinRow(left, i, r) ==
    [left_index |-> i, Name |-> left[i].Name,
     customer_name_clean |-> left[i].customer_name_clean,
     Customer |-> r.Customer, business_id |-> r.business_id]

NullRight == [Customer |-> NaN, business_id |-> NaN]

\* merge(..., how='inner'): left rows without a partner are dropped
RECURSIVE merge_inner(_, _, _)
merge_inner(left, right, n) ==
    IF n = 0 THEN <<>>
    ELSE LET m == RightMatches(left[n].customer_name_clean, right)
         IN  merge_inner(left, right, n - 1)
                 \o [k \in 1..Len(m) |-> JoinRow(left, n, m[k])]

\* sales_df.merge(customer_business_map, left_on='customer_name_clean',
\*                right_on='Customer', how='left'), rows 1..n of left
RECURSIVE merge_left(_, _, _)
merge_left(left, right, n) ==
    IF n = 0 THEN <<>>
    ELSE LET m == RightMatches(left[n].customer_name_clean, right)
         IN  merge_left(left, right, n - 1)
                 \o (IF m = <<>> THEN <<JoinRow(left, n, NullRight)>>
                     ELSE [k \in 1..Len(m) |-> JoinRow(left, n, m[k])])

map_business_id_to_df3(cdf, sdf) ==
    LET cleaned == [i \in 1..Len(sdf) |->
                      [Name |-> sdf[i].Name,
                       customer_name_clean |-> extract_customer_name(sdf[i].Name)]]
    IN  merge_left(cleaned, customer_business_map(cdf), Len(cleaned))

(***************************************************************************)
(* Specification of the assigner and the propagation                       *)
(***************************************************************************)
MaxRows == 2
MaxSales == 2

N_AB      == <<"A","B">>
N_AB_tag  == <<"A","B"," ","#","1","3">>
N_C       == <<"C">>
N_C_tagF  == <<"C","#","2","F">>

\* rows of the customer CSV: two accounts of one business, a second business
\* under the same and under a tagged customer name, a lowercase suffix, a
\* missing account number, account numbers off the pattern, missing names
CustomerCsvRowSamples ==
    {[AccountNo |-> <<"1","3">>,     Customer |-> N_AB],
     [AccountNo |-> <<"1","3","A">>, Customer |-> N_AB_tag],
     [AccountNo |-> <<"2">>,         Customer |-> N_AB],
     [AccountNo |-> <<"2">>,         Customer |-> N_AB_tag],
     [AccountNo |-> <<"2","f">>,     Customer |-> N_AB],
     [AccountNo |-> NaN,             Customer |-> N_AB],
     [AccountNo |-> <<"X","1">>,     Customer |-> NaN],
     [AccountNo |-> <<"1","3">>,     Customer |-> NaN],
     [AccountNo |-> <<"X","1">>,     Customer |-> N_AB_tag]}
SalesNameSamples == {NaN, N_AB, N_AB_tag, N_C, N_C_tagF}

ParseIdle ==
    /\ account_no = NaN
    /\ parsed = <<NaN, NaN, NaN>>
    /\ ppc = "idle"

BizInit ==
    /\ df = <<>>
    /\ customer_df = <<>>
    /\ sales_df = <<>>
    /\ sales_out = <<>>
    /\ assigner = "none"
    /\ bpc = "load"
    /\ ParseIdle
    /\ OptIdle
    /\ RunIdle
    /\ MatchIdle
    /\ CallIdle

\* one more row of the customer CSV
LoadCustomerRow ==
    /\ bpc = "load"
    /\ Len(df) < MaxRows
    /\ \E row \in CustomerCsvRowSamples :
          df' = Append(df, row)
    /\ UNCHANGED <<customer_df, sales_df, sales_out, assigner, bpc>>
    /\ UNCHANGED parseVars
    /\ UNCHANGED optVars
    /\ UNCHANGED runVars
    /\ UNCHANGED callVars
    /\ UNCHANGED matchVars

\* business_id_mapping.process_df_accounts
process_df_accounts ==
    /\ bpc = "load"
    /\ customer_df' = AssignBusinessIds(df, BUS_)
    /\ assigner' = "business_id_mapping"
    /\ bpc' = "processed"
    /\ UNCHANGED <<df, sales_df, sales_out>>
    /\ UNCHANGED parseVars
    /\ UNCHANGED optVars
    /\ UNCHANGED runVars
    /\ UNCHANGED callVars
    /\ UNCHANGED matchVars

\* account_processing.process_account_data
process_account_data ==
    /\ bpc = "load"
    /\ customer_df' = AssignBusinessIds(df, BUS_)
    /\ assigner' = "account_processing"
    /\ bpc' = "processed"
    /\ UNCHANGED <<df, sales_df, sales_out>>
    /\ UNCHANGED parseVars
    /\ UNCHANGED optVars
    /\ UNCHANGED runVars
    /\ UNCHANGED callVars
    /\ UNCHANGED matchVars

\* data_utils.process_account_data: the same steps, the ID is f"{i+1:04d}"
data_utils_process_account_data ==
    /\ bpc = "load"
    /\ customer_df' = AssignBusinessIds(df, <<>>)
    /\ assigner' = "data_utils"
    /\ bpc' = "processed"
    /\ UNCHANGED <<df, sales_df, sales_out>>
    /\ UNCHANGED parseVars
    /\ UNCHANGED optVars
    /\ UNCHANGED runVars
    /\ UNCHANGED callVars
    /\ UNCHANGED matchVars

\* one more row of the sales CSV
LoadSalesRow ==
    /\ bpc = "processed"
    /\ assigner = "business_id_mapping"
    /\ Len(sales_df) < MaxSales
    /\ \E n \in SalesNameSamples :
          sales_df' = Append(sales_df, [Name |-> n])
    /\ UNCHANGED <<df, customer_df, sales_out, assigner, bpc>>
    /\ UNCHANGED parseVars
    /\ UNCHANGED optVars
    /\ UNCHANGED runVars
    /\ UNCHANGED callVars
    /\ UNCHANGED matchVars

\* business_id_mapping.map_business_id_to_df3(customer_df_processed, sales_df)
MapBusinessIdToDf3 ==
    /\ bpc = "processed"
    /\ assigner = "business_id_mapping"
    /\ sales_out' = map_business_id_to_df3(customer_df, sales_df)
    /\ bpc' = "mapped"
    /\ UNCHANGED <<df, customer_df, sales_df, assigner>>
    /\ UNCHANGED parseVars
    /\ UNCHANGED optVars
    /\ UNCHANGED runVars
    /\ UNCHANGED callVars
    /\ UNCHANGED matchVars

BizNext ==
    \/ LoadCustomerRow
    \/ process_df_accounts
    \/ process_account_data
    \/ data_utils_process_account_data
    \/ LoadSalesRow
    \/ MapBusinessIdToDf3

SpecBiz == BizInit /\ [][BizNext]_vars

(***************************************************************************)
(* Properties of the assigner and the propagation                          *)
(***************************************************************************)
Assigned == bpc \in {"processed", "mapped"}

RowsWithBase == {i \in 1..Len(customer_df) : ~isna(customer_df[i].base_account)}

\* C5: after the assigner ran, two rows with non-null base_account carry the
\* same business_id if and only if they have the same base_account.
C5_SameIdIffSameBase ==
    Assigned =>
        \A i, j \in RowsWithBase :
            (customer_df[i].business_id = customer_df[j].business_id)
                <=> (customer_df[i].base_account = customer_df[j].base_account)

\* two accounts of one business ("13" and "13A") that were given one ID
C5_Witness ==
    /\ Assigned
    /\ \E i, j \in RowsWithBase :
          /\ customer_df[i].AccountNo # customer_df[j].AccountNo
          /\ customer_df[i].base_account = customer_df[j].base_account
          /\ customer_df[i].business_id = customer_df[j].business_id
          /\ ~isna(customer_df[i].business_id)

BaseSet == {customer_df[i].base_account : i \in RowsWithBase}

\* position of base b in the ascending string order of the distinct bases
RankOf(b) == 1 + Cardinality({x \in BaseSet : StrLess(x, b)})

\* C6: the k-th smallest distinct base number, in ascending lexicographic
\* string order, has the k-th identifier BUS_0001, BUS_0002, ... whatever the
\* row order and however many rows share a base number.
C6_IdIsRankOfBase ==
    (Assigned /\ assigner \in {"business_id_mapping", "account_processing"}) =>
        \A i \in RowsWithBase :
            customer_df[i].business_id
                = BUS_ \o Format04d(RankOf(customer_df[i].base_account))

\* a dataset whose rows list the larger base number first
C6_Witness ==
    /\ Assigned
    /\ assigner \in {"business_id_mapping", "account_processing"}
    /\ \E i, j \in RowsWithBase :
          /\ i < j
          /\ StrLess(customer_df[j].base_account, customer_df[i].base_account)
          /\ customer_df[j].business_id = BUS_ \o <<"0","0","0","1">>
          /\ customer_df[i].business_id = BUS_ \o <<"0","0","0","2">>

OutRowsOf(i) == {j \in 1..Len(sales_out) : sales_out[j].left_index = i}

\* the join finds a customer row for sales row i
HasJoinPartner(i) ==
    \E k \in 1..Len(customer_df) :
        customer_df[k].Customer = extract_customer_name(sales_df[i].Name)

\* C7: propagation never drops a sales row: every input row is in the
\* output, and a row without a matching customer is kept with a null
\* business_id.
C7_NoSalesRowDropped ==
    bpc = "mapped" =>
        /\ Len(sales_out) >= Len(sales_df)
        /\ \A i \in 1..Len(sales_df) :
              /\ \E j \in OutRowsOf(i) : sales_out[j].Name = sales_df[i].Name
              /\ ~HasJoinPartner(i) =>
                    \A j \in OutRowsOf(i) : isna(sales_out[j].business_id)

\* a mapped sales dataset with a matched and an unmatched row
C7_Witness ==
    /\ bpc = "mapped"
    /\ \E i \in 1..Len(sales_df) :
          ~HasJoinPartner(i) /\ \E j \in OutRowsOf(i) : isna(sales_out[j].business_id)
    /\ \E i \in 1..Len(sales_df) :
          HasJoinPartner(i) /\ \E j \in OutRowsOf(i) : ~isna(sales_out[j].business_id)

\* C8: the join key is the cleaned name on both sides: a sales row whose
\* cleaned Name equals the cleaned Customer of a customer row with a
\* business_id receives that business_id.
C8_JoinOnCleanedNames ==
    bpc = "mapped" =>
        \A i \in 1..Len(sales_df), k \in 1..Len(customer_df) :
            ( /\ ~isna(sales_df[i].Name)
              /\ ~isna(customer_df[k].Customer)
              /\ ~isna(customer_df[k].business_id)
              /\ extract_customer_name(sales_df[i].Name)
                     = extract_customer_name(customer_df[k].Customer) )
            => \E j \in OutRowsOf(i) :
                   sales_out[j].business_id = customer_df[k].business_id

\* 'BUS_' followed by exactly four decimal digits
IsBusId(id) ==
    /\ Len(id) = 8
    /\ SubSeq(id, 1, 4) = <<"B","U","S","_">>
    /\ \A i \in 5..8 : IsDigit(id[i])

\* C13: every non-null business_id written by any of the three assigners
\* (account_processing, business_id_mapping, data_utils) is the literal
\* prefix 'BUS_' followed by exactly four decimal digits.
C13_BusIdFormat ==
    Assigned =>
        \A i \in 1..Len(customer_df) :
            ~isna(customer_df[i].business_id) => IsBusId(customer_df[i].business_id)

\* C14: after the assigner ran, a row's is_main_account flag is true exactly
\* when its account_type is 'Lens' (matched account number with no suffix).
C14_MainIffLens ==
    Assigned =>
        \A i \in 1..Len(customer_df) :
            customer_df[i].is_main_account
                <=> (customer_df[i].account_type = T_Lens)

(***************************************************************************)
(* Name Normalizer: normalize_business_name                                *)
(***************************************************************************)
\* the replacements dict, in insertion order
replacements == <<
    <<<<"o","p","t","i","c","a","l">>, <<"o","p","t">>>>,
    <<<<"o","p","t","o","m","e","t","r","y">>, <<"o","p","t">>>>,
    <<<<"e","y","e","c","a","r","e">>, <<"e","y","e">>>>,
    <<<<"e","y","e","w","e","a","r">>, <<"e","y","e">>>>,
    <<<<"v","i","s","i","o","n">>, <<"v","i","s">>>>,
    <<<<"l","e","n","s">>, <<"l","e","n">>>>,
    <<<<"c","l","i","n","i","c">>, <<"c","l">>>>,
    <<<<"c","e","n","t","e","r">>, <<"c","t","r">>>>,
    <<<<"a","s","s","o","c","i","a","t","e","s">>, <<"a","s","s","o","c">>>>,
    <<<<"p","r","o","f","e","s","s","i","o","n","a","l">>, <<"p","r","o","f">>>>,
    <<<<"f","a","m","i","l","y">>, <<"f","a","m">>>>,
    <<<<"g","r","o","u","p">>, <<"g","r","p">>>>,
    <<<<"c","o","m","p","a","n","y">>, <<"c","o">>>>,
    <<<<"c","o","r","p","o","r","a","t","i","o","n">>, <<"c","o","r","p">>>>,
    <<<<"i","n","c","o","r","p","o","r","a","t","e","d">>, <<"i","n","c">>>>,
    <<<<"l","i","m","i","t","e","d">>, <<"l","t","d">>>>,
    <<<<"e","l","e","v","e","n">>, <<"1","1">>>>,
    <<<<"t","w","e","n","t","y">>, <<"2","0">>>>,
    <<<<"t","h","i","r","t","y">>, <<"3","0">>>>,
    <<<<"f","o","r","t","y">>, <<"4","0">>>>,
    <<<<"f","i","f","t","y">>, <<"5","0">>>>,
    <<<<"s","i","x","t","y">>, <<"6","0">>>>,
    <<<<"s","e","v","e","n","t","y">>, <<"7","0">>>>,
    <<<<"e","i","g","h","t","y">>, <<"8","0">>>>,
    <<<<"n","i","n","e","t","y">>, <<"9","0">>>>,
    <<<<"o","n","e">>, <<"1">>>>,
    <<<<"t","w","o">>, <<"2">>>>,
    <<<<"t","h","r","e","e">>, <<"3">>>>,
    <<<<"f","o","u","r">>, <<"4">>>>,
    <<<<"f","i","v","e">>, <<"5">>>>,
    <<<<"s","i","x">>, <<"6">>>>,
    <<<<"s","e","v","e","n">>, <<"7">>>>,
    <<<<"e","i","g","h","t">>, <<"8">>>>,
    <<<<"n","i","n","e">>, <<"9">>>>,
    <<<<"z","e","r","o">>, <<"0">>>>
>>

\* r'\b' + old + r'\b' matches s at position i (old starts and ends with a
\* word character, so each \b asks for a non-word neighbour or a string end)
WordAt(s, i, old) ==
    /\ i + Len(old) - 1 <= Len(s)
    /\ SubSeq(s, i, i + Len(old) - 1) = old
    /\ (i = 1 \/ ~IsWord(s[i - 1]))
    /\ (i + Len(old) > Len(s) \/ ~IsWord(s[i + Len(old)]))

\* re.sub(r'\b' + old + r'\b', new, s), scanning s from position i
RECURSIVE sub_word(_, _, _, _)
sub_word(s, i, old, new) ==
    IF i > Len(s) THEN <<>>
    ELSE IF WordAt(s, i, old)
         THEN new \o sub_word(s, i + Len(old), old, new)
         ELSE <<s[i]>> \o sub_word(s, i + 1, old, new)

\* for old, new in replacements.items(): the first k entries applied
RECURSIVE apply_replacements(_, _)
apply_replacements(s, k) ==
    IF k = 0 THEN s
    ELSE sub_word(apply_replacements(s, k - 1), 1,
                  replacements[k][1], replacements[k][2])

\* re.sub(r'[^\w\s]', '', s)
remove_special(s) == SelectSeq(s, LAMBDA c : IsWord(c) \/ IsSpace(c))

\* re.sub(r'\s+', ' ', s)
RECURSIVE collapse_spaces(_)
collapse_spaces(s) ==
    IF s = <<>> THEN <<>>
    ELSE IF IsSpace(s[1])
         THEN <<" ">> \o collapse_spaces(Tail_from(s, RunLen(s, {" ", "\n", "\t"}) + 1))
         ELSE <<s[1]>> \o collapse_spaces(Tail(s))

normalize_business_name(name) ==
    IF isna(name) THEN <<>>
    ELSE strip(collapse_spaces(remove_special(
             apply_replacements(lower(str(name)), Len(replacements)))))

(***************************************************************************)
(* Similarity Scorer.  A score is an exact fraction <<numerator,           *)
(* denominator>> in lowest terms; Python computes the same quantities in   *)
(* double precision.                                                       *)
(***************************************************************************)
RECURSIVE Gcd(_, _)
Gcd(a, b) == IF b = 0 THEN a ELSE Gcd(b, a % b)

Frac(n, d) == <<n \div Gcd(n, d), d \div Gcd(n, d)>>
Num(f) == Head(f)
Den(f) == Head(Tail(f))
FracAdd(a, b) == Frac(Num(a) * Den(b) + Num(b) * Den(a), Den(a) * Den(b))
FracMul(a, b) == Frac(Num(a) * Num(b), Den(a) * Den(b))
FracGt(a, b) == Num(a) * Den(b) > Num(b) * Den(a)
FracGe(a, b) == Num(a) * Den(b) >= Num(b) * Den(a)

\* int(round(n / d)): Python 3 rounds a half to the even neighbour
RoundHalfEven(n, d) ==
    IF 2 * (n % d) < d THEN n \div d
    ELSE IF 2 * (n % d) > d THEN (n \div d) + 1
    ELSE IF (n \div d) % 2 = 0 THEN n \div d ELSE (n \div d) + 1

\* length of the common run of a from i and b from j
RECURSIVE RunAt(_, _, _, _)
RunAt(a, b, i, j) ==
    IF i > Len(a) \/ j > Len(b) THEN 0
    ELSE IF a[i] # b[j] THEN 0
    ELSE 1 + RunAt(a, b, i + 1, j + 1)

SetMax(S) == CHOOSE m \in S : \A x \in S : x <= m
SetMin(S) == CHOOSE m \in S : \A x \in S : m <= x

\* difflib.SequenceMatcher.find_longest_match over all of a and b: the
\* longest common block, the one starting earliest in a, then earliest in b
\* (no junk; autojunk only applies to sequences of 200 or more elements)
LongestLen(a, b) ==
    IF a = <<>> \/ b = <<>> THEN 0
    ELSE SetMax({RunAt(a, b, i, j) : i \in 1..Len(a), j \in 1..Len(b)})

LongestI(a, b, k) ==
    SetMin({i \in 1..Len(a) : \E j \in 1..Len(b) : RunAt(a, b, i, j) = k})

LongestJ(a, b, i, k) ==
    SetMin({j \in 1..Len(b) : RunAt(a, b, i, j) = k})

\* sum of the sizes of SequenceMatcher.get_matching_blocks(): the longest
\* block, then recursively the pieces to its left and to its right
RECURSIVE MatchingTotal(_, _)
RECURSIVE MatchingSplit(_, _, _, _, _)
MatchingSplit(a, b, i, j, k) ==
    k + MatchingTotal(SubSeq(a, 1, i - 1), SubSeq(b, 1, j - 1))
      + MatchingTotal(SubSeq(a, i + k, Len(a)), SubSeq(b, j + k, Len(b)))

MatchingAt(a, b, i, k) == MatchingSplit(a, b, i, LongestJ(a, b, i, k), k)

MatchingFor(a, b, k) ==
    IF k = 0 THEN 0 ELSE MatchingAt(a, b, LongestI(a, b, k), k)

MatchingTotal(a, b) == MatchingFor(a, b, LongestLen(a, b))

\* length of a longest common subsequence: Levenshtein.ratio counts a
\* substitution as 2, so its distance is len(a) + len(b) - 2 * LCS
RECURSIVE Lcs(_, _)
Lcs(a, b) ==
    IF a = <<>> \/ b = <<>> THEN 0
    ELSE IF a[1] = b[1] THEN 1 + Lcs(Tail(a), Tail(b))
    ELSE IF Lcs(Tail(a), b) >= Lcs(a, Tail(b))
         THEN Lcs(Tail(a), b) ELSE Lcs(a, Tail(b))

\* matched characters counted by the SequenceMatcher of the given backend
Matched(a, b, backend) ==
    IF backend = "python-Levenshtein" THEN Lcs(a, b) ELSE MatchingTotal(a, b)

\* fuzzywuzzy.fuzz.ratio(s1, s2): 100 for equal strings, 0 when one is
\* empty, else int(round(100 * SequenceMatcher(None, s1, s2).ratio()))
fuzz_ratio(s1, s2, backend) ==
    IF s1 = s2 THEN 100
    ELSE IF s1 = <<>> \/ s2 = <<>> THEN 0
    ELSE RoundHalfEven(200 * Matched(s1, s2, backend), Len(s1) + Len(s2))

\* the ratio left on its 0..1 scale
sequence_ratio_unscaled(a, b) ==
    Frac(2 * MatchingTotal(a, b), Len(a) + Len(b))

\* difflib.SequenceMatcher(None, a, b).ratio() * 100
sequence_ratio100(a, b) ==
    Frac(200 * MatchingTotal(a, b), Len(a) + Len(b))

calculate_similarity_score(name1, name2, method, backend) ==
    IF isna(name1) \/ isna(name2) \/ name1 = <<>> \/ name2 = <<>>
    THEN <<0, 1>>
    ELSE CASE method = "fuzzy" ->
                <<fuzz_ratio(lower(name1), lower(name2), backend), 1>>
           [] method = "sequence" ->
                sequence_ratio100(lower(name1), lower(name2))
           [] method = "combined" ->
                FracMul(FracAdd(<<fuzz_ratio(lower(name1), lower(name2), backend), 1>>,
                                sequence_ratio100(lower(name1), lower(name2))),
                        <<1, 2>>)
           [] OTHER -> <<0, 1>>

(***************************************************************************)
(* Matcher: find_best_matches                                              *)
(***************************************************************************)
\* customer_data['customer_name_clean'], generated when the column is absent
customer_name_clean_col(cdata, hasCol) ==
    [i \in 1..Len(cdata) |->
        IF hasCol THEN cdata[i].customer_name_clean
        ELSE strip(sub_account_tag(str(cdata[i].Customer)))]

\* customer_data['normalized_name'] next to customer_name_clean
add_customer_cols(clean) ==
    [i \in 1..Len(clean) |->
        [customer_name_clean |-> clean[i],
         normalized_name |-> normalize_business_name(clean[i])]]

\* email_data['normalized_business']
normalized_business_col(edata) ==
    [i \in 1..Len(edata) |-> normalize_business_name(edata[i].extracted_business)]

\* s.split('@')[-1]
RECURSIVE AfterLastAt(_)
AfterLastAt(s) ==
    IF "@" \in Range(s) THEN AfterLastAt(Tail(s)) ELSE s

\* customer_row['Main Email'].split('@')[-1] if '@' in str(...) else ''
customer_domain(main_email) ==
    IF "@" \in Range(str(main_email)) THEN AfterLastAt(main_email) ELSE <<>>

\* a bonus granted to every pair
domain_score_always(email_domain, main_email) == 100

domain_score(email_domain, main_email) ==
    IF ~isna(email_domain) /\ ~isna(main_email)
    THEN IF email_domain = customer_domain(main_email) THEN 100 ELSE 0
    ELSE 0

\* a blend that leaves the domain bonus out, as the scorer's 'combined' does
combined_score_no_domain(fuzzy_score, sequence_score, dscore) ==
    FracMul(FracAdd(fuzzy_score, sequence_score), <<1, 2>>)

\* fuzzy_score * 0.4 + sequence_score * 0.4 + domain_score * 0.2
combined_score(fuzzy_score, sequence_score, dscore) ==
    FracAdd(FracAdd(FracMul(fuzzy_score, <<2, 5>>),
                    FracMul(sequence_score, <<2, 5>>)),
            FracMul(<<dscore, 1>>, <<1, 5>>))

pair_score(ename, edomain, cname, cmail, backend) ==
    combined_score(calculate_similarity_score(ename, cname, "fuzzy", backend),
                   calculate_similarity_score(ename, cname, "sequence", backend),
                   domain_score(edomain, cmail))

\* an update test that also replaces the best match on an equal score
should_update_on_tie(score, best_score, th) ==
    FracGe(score, best_score) /\ FracGe(score, <<th, 1>>)

\* an update test that forgets the threshold
should_update_no_threshold(score, best_score, th) ==
    FracGt(score, best_score)

\* combined_score > best_score and combined_score >= threshold
should_update(score, best_score, th) ==
    FracGt(score, best_score) /\ FracGe(score, <<th, 1>>)

\* the loop carries <<row of best_match or 0 for None, best_score>>
best_match_of(best) == Head(best)
best_score_of(best) == Head(Tail(best))

best_step(prev, k, score, th) ==
    IF should_update(score, best_score_of(prev), th) THEN <<k, score>> ELSE prev

\* the inner loop over customers 1..k, from best_match = None, best_score = 0
RECURSIVE best_loop(_, _, _, _, _, _, _)
best_loop(ename, edomain, cdata, ccols, th, backend, k) ==
    IF k = 0 THEN <<0, <<0, 1>>>>
    ELSE IF isna(ccols[k].normalized_name) \/ ccols[k].normalized_name = <<>>
         THEN best_loop(ename, edomain, cdata, ccols, th, backend, k - 1)
         ELSE best_step(best_loop(ename, edomain, cdata, ccols, th, backend, k - 1),
                        k,
                        pair_score(ename, edomain, ccols[k].normalized_name,
                                   cdata[k].MainEmail, backend),
                        th)

\* matches.append({...}) when best_match is not None
match_row(n, erow, cdata, ccols, best_match, best_score) ==
    IF best_match = 0 THEN <<>>
    ELSE <<[email_index |-> n,
            customer_index |-> best_match,
            email_business |-> erow.extracted_business,
            customer_name |-> cdata[best_match].Customer,
            customer_clean |-> ccols[best_match].customer_name_clean,
            similarity_score |-> best_score,
            email_domain |-> erow.email_domain,
            customer_email |-> cdata[best_match].MainEmail]>>

match_row_of(n, erow, cdata, ccols, best) ==
    match_row(n, erow, cdata, ccols, best_match_of(best), best_score_of(best))

\* the outer loop over emails 1..n (rows are numbered from 1 here, pandas
\* numbers them from 0)
RECURSIVE match_loop(_, _, _, _, _, _, _)
match_loop(edata, enorm, cdata, ccols, th, backend, n) ==
    IF n = 0 THEN <<>>
    ELSE match_loop(edata, enorm, cdata, ccols, th, backend, n - 1)
         \o (IF isna(enorm[n]) \/ enorm[n] = <<>> THEN <<>>
             ELSE match_row_of(n, edata[n], cdata, ccols,
                            best_loop(enorm[n], edata[n].email_domain, cdata,
                                      ccols, th, backend, Len(cdata))))

(***************************************************************************)
(* Specification of the matcher                                            *)
(***************************************************************************)
MaxCustomers == 2
MaxEmails == 1

N_ABC     == <<"A","B","C">>
N_ABC_tag == <<"A","B","C"," ","#","1">>
N_ABD     == <<"A","B","D">>
N_tag     == <<"#","1">>
N_XY      == <<"X","Y">>
E_u_at_d  == <<"u","@","d">>
E_no_at   == <<"x">>

\* rows of the customer CSV: an exact name without an address, the same
\* name under an account tag, a near name with and without a usable address,
\* a missing name, and a name that is nothing but a tag
CustomerRowSamples ==
    {[Customer |-> N_ABC,     MainEmail |-> NaN,      customer_name_clean |-> NaN],
     [Customer |-> N_ABC_tag, MainEmail |-> E_u_at_d, customer_name_clean |-> NaN],
     [Customer |-> N_ABD,     MainEmail |-> E_u_at_d, customer_name_clean |-> NaN],
     [Customer |-> N_ABD,     MainEmail |-> E_no_at,  customer_name_clean |-> NaN],
     [Customer |-> NaN,       MainEmail |-> NaN,      customer_name_clean |-> NaN],
     [Customer |-> N_tag,     MainEmail |-> E_u_at_d, customer_name_clean |-> NaN]}

\* rows of a customer CSV that already carries customer_name_clean
CleanedCustomerRowSamples ==
    {[Customer |-> N_ABC_tag, MainEmail |-> E_u_at_d, customer_name_clean |-> N_ABC],
     [Customer |-> N_ABC_tag, MainEmail |-> E_u_at_d, customer_name_clean |-> NaN]}

\* rows of the email dataset after extraction
EmailRowSamples ==
    {[extracted_business |-> N_ABC, email_domain |-> <<"d">>],
     [extracted_business |-> N_ABC, email_domain |-> NaN],
     [extracted_business |-> N_XY,  email_domain |-> NaN],
     [extracted_business |-> NaN,   email_domain |-> <<"d">>]}

Thresholds == {0, 70, 85}
FuzzBackends == {"difflib", "python-Levenshtein"}

MatchInit ==
    /\ customer_data = <<>>
    /\ has_clean_col \in BOOLEAN
    /\ email_data = <<>>
    /\ fuzz_backend \in FuzzBackends
    /\ threshold = 0
    /\ customer_cols = <<>>
    /\ email_norm = <<>>
    /\ matches = <<>>
    /\ final_dataset = <<>>
    /\ mpc = "load"
    /\ ParseIdle
    /\ OptIdle
    /\ RunIdle
    /\ BizIdle
    /\ CallIdle

\* one more row of the customer CSV that has no customer_name_clean column
LoadCustomer ==
    /\ mpc = "load"
    /\ ~has_clean_col
    /\ Len(customer_data) < MaxCustomers
    /\ \E row \in CustomerRowSamples :
          customer_data' = Append(customer_data, row)
    /\ UNCHANGED <<has_clean_col, email_data, fuzz_backend, threshold,
                   customer_cols, email_norm, matches, final_dataset, mpc>>
    /\ UNCHANGED parseVars
    /\ UNCHANGED optVars
    /\ UNCHANGED runVars
    /\ UNCHANGED callVars
    /\ UNCHANGED bizVars

\* one more row of a customer CSV that carries customer_name_clean
LoadCleanedCustomer ==
    /\ mpc = "load"
    /\ has_clean_col
    /\ Len(customer_data) < MaxCustomers
    /\ \E row \in CleanedCustomerRowSamples :
          customer_data' = Append(customer_data, row)
    /\ UNCHANGED <<has_clean_col, email_data, fuzz_backend, threshold,
                   customer_cols, email_norm, matches, final_dataset, mpc>>
    /\ UNCHANGED parseVars
    /\ UNCHANGED optVars
    /\ UNCHANGED runVars
    /\ UNCHANGED callVars
    /\ UNCHANGED bizVars

\* one more row of the email dataset, business name and domain extracted
LoadEmail ==
    /\ mpc = "load"
    /\ Len(email_data) < MaxEmails
    /\ \E row \in EmailRowSamples :
          email_data' = Append(email_data, row)
    /\ UNCHANGED <<customer_data, has_clean_col, fuzz_backend, threshold,
                   customer_cols, email_norm, matches, final_dataset, mpc>>
    /\ UNCHANGED parseVars
    /\ UNCHANGED optVars
    /\ UNCHANGED runVars
    /\ UNCHANGED callVars
    /\ UNCHANGED bizVars

\* find_best_matches(email_data, customer_data, threshold): the columns are
\* added, the loops run, and the matching rate is printed, which divides by
\* len(email_data)
find_best_matches ==
    /\ mpc = "load"
    /\ \E th \in Thresholds : threshold' = th
    /\ customer_cols' =
          add_customer_cols(customer_name_clean_col(customer_data, has_clean_col))
    /\ email_norm' = normalized_business_col(email_data)
    /\ IF Len(email_data) = 0
       THEN /\ matches' = <<>>
            /\ mpc' = "ZeroDivisionError"
       ELSE /\ matches' = match_loop(email_data, email_norm', customer_data,
                                     customer_cols', threshold', fuzz_backend,
                                     Len(email_data))
            /\ mpc' = "matched"
    /\ UNCHANGED <<customer_data, has_clean_col, email_data, fuzz_backend,
                   final_dataset>>
    /\ UNCHANGED parseVars
    /\ UNCHANGED optVars
    /\ UNCHANGED runVars
    /\ UNCHANGED callVars
    /\ UNCHANGED bizVars

\* the rows of customer_info = customer_data.set_index('Customer')[...] whose
\* index value is key, in the order of customer_data (a null key joins a
\* null index value)
CustomerInfoRows(cdata, key) ==
    SelectSeq([k \in 1..Len(cdata) |-> k],
              LAMBDA k : cdata[k].Customer = key)

\* matched_emails.join(customer_info, on='matched_customer', how='left') for
\* the row of match i: one output row per customer row with that Customer
join_customer_info(m, i, cdata) ==
    [j \in 1..Len(CustomerInfoRows(cdata, m[i].customer_name)) |->
        [match |-> i,
         email_index |-> m[i].email_index,
         matched_customer |-> m[i].customer_name,
         matched_customer_clean |-> m[i].customer_clean,
         similarity_score |-> m[i].similarity_score,
         MainEmail |-> cdata[CustomerInfoRows(cdata,
                                              m[i].customer_name)[j]].MainEmail]]

RECURSIVE final_rows(_, _, _)
final_rows(m, n, cdata) ==
    IF n = 0 THEN <<>>
    ELSE final_rows(m, n - 1, cdata) \o join_customer_info(m, n, cdata)

\* create_final_matched_dataset(email_data, matches_df, customer_data), which
\* main_email_customer_matching calls when the match table is not empty
create_final_matched_dataset ==
    /\ mpc = "matched"
    /\ matches # <<>>
    /\ final_dataset' = final_rows(matches, Len(matches), customer_data)
    /\ mpc' = "final"
    /\ UNCHANGED <<customer_data, has_clean_col, email_data, fuzz_backend,
                   threshold, customer_cols, email_norm, matches>>
    /\ UNCHANGED parseVars
    /\ UNCHANGED optVars
    /\ UNCHANGED runVars
    /\ UNCHANGED callVars
    /\ UNCHANGED bizVars

MatchNext ==
    \/ LoadCustomer
    \/ LoadCleanedCustomer
    \/ LoadEmail
    \/ find_best_matches
    \/ create_final_matched_dataset

SpecMatch == MatchInit /\ [][MatchNext]_vars

(***************************************************************************)
(* Properties of the matcher                                               *)
(***************************************************************************)
MatchingDone == mpc \in {"matched", "final"}

\* the customers the inner loop scores for any email
Candidates ==
    {k \in 1..Len(customer_data) : customer_cols[k].normalized_name # <<>>}

\* the emails the outer loop does not skip
ScoredEmails ==
    {n \in 1..Len(email_data) : email_norm[n] # <<>>}

Score(n, k) ==
    pair_score(email_norm[n], email_data[n].email_domain,
               customer_cols[k].normalized_name, customer_data[k].MainEmail,
               fuzz_backend)

IsMax(n, k) ==
    /\ k \in Candidates
    /\ \A j \in Candidates : FracGe(Score(n, k), Score(n, j))

IsFirstMax(n, k) ==
    /\ IsMax(n, k)
    /\ \A j \in Candidates : j < k => FracGt(Score(n, k), Score(n, j))

RowsOfEmail(n) ==
    {i \in 1..Len(matches) : matches[i].email_index = n}

\* C1: every MatchResult belongs to an email with a non-empty normalized
\* business name, names the first customer in iteration order whose combined
\* score is the maximum over all customers with a non-empty normalized name,
\* and carries that maximum as its similarity_score (first-seen wins on ties).
C1_FirstMaxWins ==
    MatchingDone =>
        \A i \in 1..Len(matches) :
            /\ matches[i].email_index \in ScoredEmails
            /\ IsFirstMax(matches[i].email_index, matches[i].customer_index)
            /\ matches[i].similarity_score =
                  Score(matches[i].email_index, matches[i].customer_index)

\* two customers tie at the maximum and the first one is named
C1_Witness ==
    /\ MatchingDone
    /\ \E i \in 1..Len(matches) :
          /\ matches[i].customer_index = 1
          /\ 2 \in Candidates
          /\ IsMax(matches[i].email_index, 2)

\* C2: for every threshold and every email with a non-empty normalized
\* business name, exactly one MatchResult is output when some customer has
\* combined_score >= threshold, and no row at all otherwise.
C2_OneRowIffCandidateAtThreshold ==
    MatchingDone =>
        \A n \in ScoredEmails :
            Cardinality(RowsOfEmail(n)) =
                IF \E k \in Candidates : FracGe(Score(n, k), <<threshold, 1>>)
                THEN 1 ELSE 0

\* C3: every MatchResult has similarity_score >= the threshold passed in.
C3_NoMatchBelowThreshold ==
    MatchingDone =>
        \A i \in 1..Len(matches) :
            FracGe(matches[i].similarity_score, <<threshold, 1>>)

\* one email is matched at threshold 70 while another candidate, scoring
\* above zero but below the threshold, is passed over
C3_Witness ==
    /\ MatchingDone
    /\ threshold = 70
    /\ \E i \in 1..Len(matches) : \E k \in Candidates :
          /\ FracGt(Score(matches[i].email_index, k), <<0, 1>>)
          /\ ~FracGe(Score(matches[i].email_index, k), <<threshold, 1>>)

\* the domain part of an address: what follows its '@'
IsDomainPartOf(d, address) ==
    /\ ~isna(address)
    /\ \E p \in 1..Len(address) :
          /\ address[p] = "@"
          /\ SubSeq(address, p + 1, Len(address)) = d
          /\ "@" \notin Range(d)

SameDomain(n, k) ==
    /\ ~isna(email_data[n].email_domain)
    /\ IsDomainPartOf(email_data[n].email_domain, customer_data[k].MainEmail)

\* (2*fuzzy + 2*sequence + domain) / 5
Blend(fuzzy, sequence, d) ==
    Frac(2 * fuzzy * Den(sequence) + 2 * Num(sequence) + d * Den(sequence),
         5 * Den(sequence))

\* C4: the stored score is 0.4*fuzzy_score + 0.4*sequence_score +
\* 0.2*domain_score, with domain_score 100 exactly when the email's domain is
\* non-null and equals the domain part of the customer's Main Email and 0
\* otherwise, and it lies in [0,100].
C4_CombinedScoreFormula ==
    MatchingDone =>
        \A i \in 1..Len(matches) :
            /\ matches[i].similarity_score =
                  Blend(fuzz_ratio(email_norm[matches[i].email_index],
                                   customer_cols[matches[i].customer_index].normalized_name,
                                   fuzz_backend),
                        sequence_ratio100(email_norm[matches[i].email_index],
                                          customer_cols[matches[i].customer_index].normalized_name),
                        IF SameDomain(matches[i].email_index, matches[i].customer_index)
                        THEN 100 ELSE 0)
            /\ FracGe(matches[i].similarity_score, <<0, 1>>)
            /\ FracGe(<<100, 1>>, matches[i].similarity_score)

\* a match of unequal names that the shared domain lifts over the threshold
C4_Witness ==
    /\ MatchingDone
    /\ threshold = 70
    /\ \E i \in 1..Len(matches) :
          /\ SameDomain(matches[i].email_index, matches[i].customer_index)
          /\ FracGt(<<100, 1>>, matches[i].similarity_score)

(***************************************************************************)
(* Specification of the Name Normalizer: one call on an arbitrary name     *)
(***************************************************************************)
MaxNormLen == 4
NormAlphabet == {"o", "n", "e", "A", "1", " ", "_", "."}
NormNames == StringsUpTo(NormAlphabet, MaxNormLen) \cup {NaN}

NormInit ==
    /\ arg1 \in NormNames
    /\ arg2 = NaN
    /\ out = NaN
    /\ cpc = "input"
    /\ ParseIdle
    /\ OptIdle
    /\ RunIdle
    /\ BizIdle
    /\ MatchIdle

Normalize ==
    /\ cpc = "input"
    /\ out' = normalize_business_name(arg1)
    /\ cpc' = "normalize_business_name"
    /\ UNCHANGED <<arg1, arg2>>
    /\ UNCHANGED parseVars
    /\ UNCHANGED optVars
    /\ UNCHANGED runVars
    /\ UNCHANGED bizVars
    /\ UNCHANGED matchVars

NormNext == Normalize

SpecNorm == NormInit /\ [][NormNext]_vars

(***************************************************************************)
(* Properties of the Name Normalizer                                       *)
(***************************************************************************)
\* C15: for every input, null included, normalize_business_name returns a
\* string (never null) made only of lowercase letters, digits and single
\* interior spaces: no leading or trailing space, no run of two spaces, no
\* punctuation and no underscore.
C15_NormalizedAlphabet ==
    cpc = "normalize_business_name" =>
        /\ ~isna(out)
        /\ \A i \in 1..Len(out) : IsLower(out[i]) \/ IsDigit(out[i]) \/ out[i] = " "
        /\ out # <<>> => (out[1] # " " /\ out[Len(out)] # " ")
        /\ \A i \in 1..(Len(out) - 1) : ~(out[i] = " " /\ out[i + 1] = " ")

(***************************************************************************)
(* Specification of the name cleaning: one call on an arbitrary name       *)
(***************************************************************************)
MaxCleanLen == 4
CleanAlphabet == {"A", "b", "1", "#", " ", "\n"}
CleanNames == StringsUpTo(CleanAlphabet, MaxCleanLen) \cup {NaN}

CleanInit ==
    /\ arg1 \in CleanNames
    /\ arg2 = NaN
    /\ out = NaN
    /\ cpc = "input"
    /\ ParseIdle
    /\ OptIdle
    /\ RunIdle
    /\ BizIdle
    /\ MatchIdle

CleanCustomerName ==
    /\ cpc = "input"
    /\ out' = clean_customer_name(arg1)
    /\ cpc' = "clean_customer_name"
    /\ UNCHANGED <<arg1, arg2>>
    /\ UNCHANGED parseVars
    /\ UNCHANGED optVars
    /\ UNCHANGED runVars
    /\ UNCHANGED bizVars
    /\ UNCHANGED matchVars

ExtractCustomerName ==
    /\ cpc = "input"
    /\ out' = extract_customer_name(arg1)
    /\ cpc' = "extract_customer_name"
    /\ UNCHANGED <<arg1, arg2>>
    /\ UNCHANGED parseVars
    /\ UNCHANGED optVars
    /\ UNCHANGED runVars
    /\ UNCHANGED bizVars
    /\ UNCHANGED matchVars

CleanNext ==
    \/ CleanCustomerName
    \/ ExtractCustomerName

SpecClean == CleanInit /\ [][CleanNext]_vars

(***************************************************************************)
(* Properties of the name cleaning                                         *)
(***************************************************************************)
\* t is an account tag as \s*#\d+[A-Za-z]*$ reads it: spaces, '#', one or
\* more digits, letters, and then the end of the string or its final newline
IsAccountTag(t) ==
    \E h \in 1..Len(t) : \E d \in (h + 1)..Len(t) : \E e \in d..Len(t) :
        /\ \A i \in 1..(h - 1) : IsSpace(t[i])
        /\ t[h] = "#"
        /\ \A i \in (h + 1)..d : IsDigit(t[i])
        /\ \A i \in (d + 1)..e : IsAsciiLetter(t[i])
        /\ (e = Len(t) \/ (e = Len(t) - 1 /\ t[Len(t)] = "\n"))

TagStarts(s) == {k \in 1..Len(s) : IsAccountTag(SubSeq(s, k, Len(s)))}

\* the name without its trailing account tag, trimmed
ReferenceClean(s) ==
    IF TagStarts(s) # {}
    THEN strip(SubSeq(s, 1, (CHOOSE k \in TagStarts(s) : TRUE) - 1))
    ELSE strip(s)

CleanDone == cpc \in {"clean_customer_name", "extract_customer_name"}

\* C16: for every non-null customer name, the name-cleaning function returns
\* the name with a trailing account tag matching \s*#\d+[A-Za-z]*$ removed
\* and the result trimmed; a name that does not end in such a tag is returned
\* unchanged apart from trimming.
C16_CleanRemovesTrailingTag ==
    (CleanDone /\ ~isna(arg1)) => out = ReferenceClean(arg1)

\* "A #1" cleaned to "A"
C16_Witness ==
    /\ CleanDone
    /\ arg1 = <<"A", " ", "#", "1">>
    /\ out = <<"A">>

(***************************************************************************)
(* Specification of the Similarity Scorer: one call of                     *)
(* calculate_similarity_score, or one pass of the matcher's loop body, on  *)
(* an arbitrary pair of names                                              *)
(***************************************************************************)
MaxScoreLen == 4
ScoreAlphabet == {"a", "b"}
ScoreNames == StringsUpTo(ScoreAlphabet, MaxScoreLen) \cup {NaN}
Methods == {"fuzzy", "sequence", "combined", "other"}
PairEmailDomains == {NaN, <<"d">>}
PairMainEmails == {NaN, E_u_at_d, E_no_at}

ScoreInit ==
    /\ arg1 \in ScoreNames
    /\ arg2 \in ScoreNames
    /\ out = NaN
    /\ cpc = "input"
    /\ customer_data = <<>>
    /\ has_clean_col = FALSE
    /\ email_data = <<>>
    /\ fuzz_backend \in FuzzBackends
    /\ threshold = 0
    /\ customer_cols = <<>>
    /\ email_norm = <<>>
    /\ matches = <<>>
    /\ final_dataset = <<>>
    /\ mpc = "idle"
    /\ ParseIdle
    /\ OptIdle
    /\ RunIdle
    /\ BizIdle

\* calculate_similarity_score(name1, name2, method)
CalculateSimilarityScore ==
    /\ cpc = "input"
    /\ \E method \in Methods :
          out' = [method |-> method,
                  score |-> calculate_similarity_score(arg1, arg2, method,
                                                       fuzz_backend)]
    /\ cpc' = "calculate_similarity_score"
    /\ UNCHANGED <<arg1, arg2>>
    /\ UNCHANGED parseVars
    /\ UNCHANGED optVars
    /\ UNCHANGED runVars
    /\ UNCHANGED bizVars
    /\ UNCHANGED matchVars

\* the body of the matcher's inner loop for an email whose normalized
\* business name is arg1 and a customer whose normalized name is arg2; the
\* loops skip null and empty names
ScorePair ==
    /\ cpc = "input"
    /\ ~isna(arg1) /\ arg1 # <<>>
    /\ ~isna(arg2) /\ arg2 # <<>>
    /\ \E d \in PairEmailDomains, m \in PairMainEmails :
          out' = [email_domain |-> d,
                  main_email |-> m,
                  score |-> pair_score(arg1, d, arg2, m, fuzz_backend)]
    /\ cpc' = "combined_score"
    /\ UNCHANGED <<arg1, arg2>>
    /\ UNCHANGED parseVars
    /\ UNCHANGED optVars
    /\ UNCHANGED runVars
    /\ UNCHANGED bizVars
    /\ UNCHANGED matchVars

ScoreNext ==
    \/ CalculateSimilarityScore
    \/ ScorePair

SpecScore == ScoreInit /\ [][ScoreNext]_vars

(***************************************************************************)
(* Properties of the Similarity Scorer                                     *)
(***************************************************************************)
PairScored == cpc = "combined_score"
Scored == cpc = "calculate_similarity_score"

\* the email's domain is non-null and is the domain part of the Main Email
PairSameDomain ==
    /\ ~isna(out.email_domain)
    /\ IsDomainPartOf(out.email_domain, out.main_email)

\* C17: for every non-empty normalized name, the combined score of the name
\* against itself is exactly 100 when the email domain equals the customer
\* domain, and at least 80 from the name components alone when it does not.
C17_SelfScore ==
    (PairScored /\ arg1 = arg2) =>
        IF PairSameDomain THEN out.score = <<100, 1>>
        ELSE FracGe(out.score, <<80, 1>>)

\* a name of the longest sampled length scored against itself, the email domain
\* being that of the customer's main email
C17_Witness ==
    /\ PairScored
    /\ arg1 = arg2
    /\ Len(arg1) = MaxScoreLen
    /\ PairSameDomain
    /\ out.score = <<100, 1>>

\* C18: calculate_similarity_score(a, b, m) equals
\* calculate_similarity_score(b, a, m) for the 'fuzzy' method and for the
\* 'sequence' method, for all pairs of names a and b.
C18_ScoreSymmetric ==
    (Scored /\ out.method \in {"fuzzy", "sequence"}) =>
        out.score = calculate_similarity_score(arg2, arg1, out.method,
                                               fuzz_backend)

\* C19: the 'combined' method of calculate_similarity_score returns the
\* weighted sum the Matcher uses with a domain bonus of 0, that is
\* 0.4 * fuzzy_score + 0.4 * sequence_score, for every pair of names.
C19_CombinedIsMatcherSum ==
    (Scored /\ out.method = "combined") =>
        out.score =
            combined_score(
                calculate_similarity_score(arg1, arg2, "fuzzy", fuzz_backend),
                calculate_similarity_score(arg1, arg2, "sequence",
                                           fuzz_backend),
                0)

\* ---------------------------------------------------------------------------
\* Pipeline entry points: main_business_id_mapping (business_id_mapping.py)
\* and main_email_customer_matching (email_customer_matching.py).  A run is a
\* sequence of file operations: two pd.read_csv, the processing steps, two
\* DataFrame.to_csv.  The file system is the run's input.
\* ---------------------------------------------------------------------------
EntryPoints == {"main_business_id_mapping", "main_email_customer_matching"}

input_files(e) ==
    IF e = "main_business_id_mapping"
    THEN <<"cc (1).csv", "s_by_c.CSV">>
    ELSE <<"../data/processed_customer_data.csv",
           "../data/processed_email_data.csv">>

output_files(e) ==
    IF e = "main_business_id_mapping"
    THEN <<"processed_customer_with_business_ids.csv",
           "processed_sales_with_business_ids.csv">>
    ELSE <<"../data/email_customer_matched.csv",
           "../data/email_customer_matches.csv">>

FileStatus == {"present", "missing", "unreadable"}

\* what is at an output path before the run: nothing, or an earlier run's file
OutputStatus == {"absent", "old"}

\* pd.read_csv(path): the frame, or the exception open() raises
read_csv(status) ==
    CASE status = "present" -> "ok"
      [] status = "missing" -> "FileNotFoundError"
      [] status = "unreadable" -> "PermissionError"

\* handlers that catch nothing by name: only the catch-all of
\* main_business_id_mapping is left
except_clause_catch_all_only(e, pos, exc) ==
    IF e = "main_business_id_mapping" THEN "Exception" ELSE "uncaught"

\* the except clause that handles exception exc raised at position pos.
\* main_business_id_mapping: the whole body is in one try with the clauses
\* FileNotFoundError and Exception.  main_email_customer_matching: only the
\* two reads are in a try, with the one clause FileNotFoundError.
except_clause(e, pos, exc) ==
    IF e = "main_business_id_mapping"
    THEN IF exc = "FileNotFoundError" THEN "FileNotFoundError"
         ELSE "Exception"
    ELSE IF pos \in {"read1", "read2"} /\ exc = "FileNotFoundError"
         THEN "FileNotFoundError"
         ELSE "uncaught"

\* the message the except clause prints
except_message(e, clause) ==
    IF e = "main_business_id_mapping"
    THEN IF clause = "FileNotFoundError"
         THEN "Error: Required data files not found"
         ELSE "Pipeline failed"
    ELSE "Error: Data files not found. Please process data first"

\* exception exc is raised at the current position: the matching clause
\* prints its message and returns None, or the exception leaves the function
Raise(exc) ==
    IF except_clause(entry, rpc, exc) = "uncaught"
    THEN /\ rpc' = "raised"
         /\ ret' = exc
         /\ printed' = printed
    ELSE /\ rpc' = "returned"
         /\ ret' = "None"
         /\ printed' =
                Append(printed,
                       except_message(entry, except_clause(entry, rpc, exc)))

ReadPath == IF rpc = "read1" THEN input_files(entry)[1]
            ELSE input_files(entry)[2]

WritePath == IF rpc = "write1" THEN output_files(entry)[1]
             ELSE output_files(entry)[2]

\* columns the processing steps read unconditionally: df['Account No.']
\* (process_df_accounts), ['Customer'] (map_business_id_to_df3);
\* email_data['fromAddress'], ['subject'] (extract_business_info_from_email)
required_columns(e) ==
    IF e = "main_business_id_mapping"
    THEN {"Account No.", "Customer"}
    ELSE {"fromAddress", "subject"}

\* what the quality step reports: verify_mapping's level, or
\* analyze_matching_quality's summary; "no_matches" is an empty match table
quality_outcomes(e) ==
    IF e = "main_business_id_mapping"
    THEN {"Poor", "Moderate", "Good", "Excellent"}
    ELSE {"no_matches", "Low", "Moderate", "Good", "Excellent"}

RunInit ==
    /\ entry \in EntryPoints
    /\ absent_column \in {"none"} \cup required_columns(entry)
    /\ quality = "none"
    /\ write_error = FALSE
    /\ inputs \in [Range(input_files(entry)) -> FileStatus]
    /\ outputs \in [Range(output_files(entry)) -> OutputStatus]
    /\ rpc = "read1"
    /\ printed = <<"Pipeline Started">>
    /\ ret = "running"
    /\ read_error = "none"
    /\ ParseIdle
    /\ OptIdle
    /\ BizIdle
    /\ MatchIdle
    /\ CallIdle

\* customer_df = pd.read_csv(...), then the second pd.read_csv(...)
ReadCsv ==
    /\ rpc \in {"read1", "read2"}
    /\ IF read_csv(inputs[ReadPath]) = "ok"
       THEN /\ rpc' = IF rpc = "read1" THEN "read2" ELSE "process"
            /\ printed' = IF rpc = "read2"
                          THEN Append(printed, "Loaded")
                          ELSE printed
            /\ UNCHANGED <<ret, read_error>>
       ELSE /\ read_error' = read_csv(inputs[ReadPath])
            /\ Raise(read_csv(inputs[ReadPath]))
    /\ UNCHANGED <<entry, inputs, outputs, absent_column, quality, write_error>>
    /\ UNCHANGED parseVars
    /\ UNCHANGED optVars
    /\ UNCHANGED bizVars
    /\ UNCHANGED matchVars
    /\ UNCHANGED callVars

\* the steps between the reads and the writes.  Reading an absent column
\* raises KeyError; other data errors raise too (ZeroDivisionError for an
\* email dataset without rows).  Otherwise the quality step reports its
\* outcome; main_email_customer_matching returns None with a warning when the
\* match table is empty, every other outcome goes on to the writes.
Process ==
    /\ rpc = "process"
    /\ IF absent_column # "none"
       THEN /\ Raise("KeyError")
            /\ quality' = quality
       ELSE \/ /\ Raise("ZeroDivisionError")
               /\ quality' = quality
            \/ \E q \in quality_outcomes(entry) :
                  /\ quality' = q
                  /\ IF q = "no_matches"
                     THEN /\ rpc' = "returned"
                          /\ ret' = "None"
                          /\ printed' =
                                 Append(printed, "Warning: No matches found")
                     ELSE /\ rpc' = "write1"
                          /\ ret' = ret
                          /\ printed' = Append(printed, q)
    /\ UNCHANGED <<entry, inputs, outputs, read_error, absent_column,
                   write_error>>
    /\ UNCHANGED parseVars
    /\ UNCHANGED optVars
    /\ UNCHANGED bizVars
    /\ UNCHANGED matchVars
    /\ UNCHANGED callVars

\* the two DataFrame.to_csv calls; after the second one the summary is
\* printed and the result tuple is returned
ToCsv ==
    /\ rpc \in {"write1", "write2"}
    /\ \E written \in BOOLEAN :
          IF written
          THEN /\ outputs' = [outputs EXCEPT ![WritePath] = "new"]
               /\ rpc' = IF rpc = "write1" THEN "write2" ELSE "returned"
               /\ ret' = IF rpc = "write1" THEN ret ELSE "tuple"
               /\ printed' = IF rpc = "write1" THEN printed
                             ELSE Append(printed, "saved")
               /\ write_error' = write_error
          ELSE /\ outputs' = outputs
               /\ Raise("PermissionError")
               /\ write_error' = TRUE
    /\ UNCHANGED <<entry, inputs, read_error, absent_column, quality>>
    /\ UNCHANGED parseVars
    /\ UNCHANGED optVars
    /\ UNCHANGED bizVars
    /\ UNCHANGED matchVars
    /\ UNCHANGED callVars

RunNext ==
    \/ ReadCsv
    \/ Process
    \/ ToCsv

SpecRun == RunInit /\ [][RunNext]_vars

\* ---------------------------------------------------------------------------
\* Properties of the entry points
\* ---------------------------------------------------------------------------
NoOutputWritten == \A f \in DOMAIN outputs : outputs[f] # "new"

\* C20: if a required input file is missing, the entry point catches the
\* error, prints an explicit message, returns None and writes no output file;
\* no output CSV is written in a run in which an input read failed.
C20_MissingInputAborts ==
    /\ (read_error = "FileNotFoundError") =>
          /\ rpc = "returned"
          /\ ret = "None"
          /\ printed[Len(printed)] = except_message(entry, "FileNotFoundError")
          /\ NoOutputWritten
    /\ (read_error # "none") => NoOutputWritten

\* the second input of the matching pipeline is missing after the first was
\* read, with output files of an earlier run in place
C20_Witness ==
    /\ entry = "main_email_customer_matching"
    /\ inputs["../data/processed_customer_data.csv"] = "present"
    /\ inputs["../data/processed_email_data.csv"] = "missing"
    /\ read_error = "FileNotFoundError"
    /\ ret = "None"
    /\ outputs["../data/email_customer_matched.csv"] = "old"

RunEnded == rpc \in {"returned", "raised"}

\* C21: when a column the pipeline requires is absent from an input dataset,
\* an explicit check reports a descriptive message before the run aborts, and
\* no raw exception from reading the missing column leaves the entry point.
C21_MissingColumnReported ==
    (RunEnded /\ read_error = "none" /\ absent_column # "none") =>
        /\ ret = "None"
        /\ printed[Len(printed)] = "Missing required column"

\* C22: once the input files have loaded, no quality outcome stops a run:
\* for every outcome of the quality step, an empty match table included, a
\* run that ended without a write error has written both output files.
C22_QualityNeverStops ==
    (RunEnded /\ quality # "none" /\ ~write_error) =>
        /\ ret = "tuple"
        /\ \A f \in DOMAIN outputs : outputs[f] = "new"

\* ---------------------------------------------------------------------------
\* Optical-name generation: create_business_id_to_optical_mapping
\* (add_optical_names_to_email_df.py), the same loop as the script
\* src/add_optical_names.py.  A name is the sequence of its words, which
\* f"{adj} {noun}" joins with single spaces; no word of the lists holds a space.
\* ---------------------------------------------------------------------------
MaxIds == 3
MaxAttempts == 2

adjectives == {"Bright", "Clear"}
nouns == {"Optical"}
Draws == adjectives \X nouns

BusinessIds == {"BUS_0001", "BUS_0002", "BUS_0003"}

\* the values hash(str(business_id)) % 2147483647 takes, cut down to two
Seeds == {0, 1}

\* str hashing is salted per process (PYTHONHASHSEED): within one process
\* hash is a function, and two processes may have two different functions
StrHashes == [BusinessIds -> Seeds]

\* np.random.seed(s) restarts the generator: the draws after it depend on s
\* alone.  The generator is any such function.
Generators == [Seeds -> [1..MaxAttempts -> Draws]]

\* email_df['business_id'].dropna().unique(): a list without repetitions
UniqueIdLists ==
    {ids \in UNION {[1..n -> BusinessIds] : n \in 0..MaxIds} :
        \A i, j \in 1..Len(ids) : ids[i] = ids[j] => i = j}

\* a fallback that leaves the number out
fallback_name_unnumbered(draw, i) == draw

\* optical_name = f"{adj} {noun} {i+1}", i the 0-based position of the id
fallback_name(draw, i) == Append(draw, ToString(i + 1))

\* the attempts of range(max_attempts) whose name is not in used_names
FreeAttempts(seed, used) ==
    {k \in 1..MaxAttempts : rng[seed][k] \notin used}

\* the body of the loop over the business_ids for one id: the first attempt
\* with an unused name, else the last draw with the position appended
optical_name_for(seed, used, i) ==
    IF FreeAttempts(seed, used) # {}
    THEN rng[seed][SetMin(FreeAttempts(seed, used))]
    ELSE fallback_name(rng[seed][MaxAttempts], i)

\* the names given to ids[1..n], in the order of the list
RECURSIVE optical_names(_, _, _)
optical_names(ids, n, hash) ==
    IF n = 0 THEN <<>>
    ELSE Append(optical_names(ids, n - 1, hash),
                optical_name_for(hash[ids[n]],
                                 Range(optical_names(ids, n - 1, hash)),
                                 n - 1))

\* the dictionary business_id_to_optical: a later entry of the same key
\* replaces the earlier one
create_business_id_to_optical_mapping(ids, hash) ==
    [b \in Range(ids) |->
        optical_names(ids, Len(ids), hash)[
            SetMax({i \in 1..Len(ids) : ids[i] = b})]]

OpticalInit ==
    /\ unique_business_ids \in UniqueIdLists
    /\ rng \in Generators
    /\ hash1 \in StrHashes
    /\ hash2 \in StrHashes
    /\ optical1 = NotRun
    /\ optical2 = NotRun
    /\ ParseIdle
    /\ BizIdle
    /\ MatchIdle
    /\ CallIdle
    /\ RunIdle

\* one execution of the script in a first process
GenerateInProcess1 ==
    /\ optical1 = NotRun
    /\ optical1' = create_business_id_to_optical_mapping(unique_business_ids,
                                                          hash1)
    /\ UNCHANGED <<unique_business_ids, rng, hash1, hash2, optical2>>
    /\ UNCHANGED parseVars
    /\ UNCHANGED bizVars
    /\ UNCHANGED matchVars
    /\ UNCHANGED callVars
    /\ UNCHANGED runVars

\* another execution, on the same input, in a second process
GenerateInProcess2 ==
    /\ optical2 = NotRun
    /\ optical2' = create_business_id_to_optical_mapping(unique_business_ids,
                                                          hash2)
    /\ UNCHANGED <<unique_business_ids, rng, hash1, hash2, optical1>>
    /\ UNCHANGED parseVars
    /\ UNCHANGED bizVars
    /\ UNCHANGED matchVars
    /\ UNCHANGED callVars
    /\ UNCHANGED runVars

OpticalNext ==
    \/ GenerateInProcess1
    \/ GenerateInProcess2

SpecOptical == OpticalInit /\ [][OpticalNext]_vars

\* ---------------------------------------------------------------------------
\* Properties of optical-name generation
\* ---------------------------------------------------------------------------
\* C23: two executions on identical input (same business_ids, same word
\* lists, same seed) produce the identical business_id -> optical_name
\* mapping, whatever the per-process string hash is.
C23_SameMappingAcrossProcesses ==
    (optical1 # NotRun /\ optical2 # NotRun) => optical1 = optical2

InjectiveOnIds(m) ==
    /\ DOMAIN m = Range(unique_business_ids)
    /\ \A a, b \in DOMAIN m : m[a] = m[b] => a = b

\* C24: distinct business_ids of a list of unique ids get pairwise distinct
\* optical names, every id of the list gets a name, also when all attempts are
\* used up and the numbered fallback name is taken.
C24_DistinctNames ==
    /\ optical1 # NotRun => InjectiveOnIds(optical1)
    /\ optical2 # NotRun => InjectiveOnIds(optical2)

\* three ids, the last of which ran out of attempts and got a numbered name
C24_Witness ==
    /\ optical1 # NotRun
    /\ Len(unique_business_ids) = MaxIds
    /\ Len(optical1[unique_business_ids[MaxIds]]) = 3

\* ---------------------------------------------------------------------------
\* Further properties of the matcher
\* ---------------------------------------------------------------------------
\* C25: a customer row without a usable name is never a match candidate: a
\* customer whose Customer field is null, or whose normalized name is empty,
\* is never the matched customer of any email, for every threshold.
C25_NullCustomerNeverMatched ==
    MatchingDone =>
        \A i \in 1..Len(matches) :
            /\ ~isna(customer_data[matches[i].customer_index].Customer)
            /\ customer_cols[matches[i].customer_index].normalized_name # <<>>

\* C26: without a domain match the combined score never exceeds 80: every
\* MatchResult with a score above 80, so every one in the High tier (>= 90)
\* and every one returned under a threshold above 80, comes from a pair whose
\* domains are equal.
C26_Above80NeedsDomain ==
    MatchingDone =>
        \A i \in 1..Len(matches) :
            (FracGt(matches[i].similarity_score, <<80, 1>>)
               \/ threshold > 80) =>
                SameDomain(matches[i].email_index, matches[i].customer_index)

\* a High-tier match returned under the threshold 85
C26_Witness ==
    /\ MatchingDone
    /\ threshold = 85
    /\ \E i \in 1..Len(matches) :
          /\ FracGe(matches[i].similarity_score, <<90, 1>>)
          /\ SameDomain(matches[i].email_index, matches[i].customer_index)

\* ---------------------------------------------------------------------------
\* Further properties of the propagation
\* ---------------------------------------------------------------------------
\* C27: propagating business_id to the sales dataset never increases the row
\* count: each input sales row appears exactly once in the output of
\* map_business_id_to_df3 and so carries at most one business_id, also when
\* one Customer string has two different business_ids.
C27_OneOutputRowPerSalesRow ==
    bpc = "mapped" =>
        /\ Len(sales_out) = Len(sales_df)
        /\ \A i \in 1..Len(sales_df) : Cardinality(OutRowsOf(i)) = 1

\* C28: create_final_matched_dataset returns exactly one row per MatchResult,
\* in the order of the match table: the final dataset has as many rows as
\* there are matches, also when Customer names repeat in the customer dataset.
C28_OneFinalRowPerMatch ==
    mpc = "final" =>
        /\ Len(final_dataset) = Len(matches)
        /\ \A i \in 1..Len(final_dataset) : final_dataset[i].match = i

\* C29: find_best_matches completes without raising and returns a match
\* table for all inputs that have the required columns, an email collection
\* with zero rows and a customer collection with zero rows included.
C29_MatcherNeverRaises ==
    mpc # "load" => MatchingDone

\* ---------------------------------------------------------------------------
\* Further properties of the Name Normalizer
\* ---------------------------------------------------------------------------
\* C30: normalize_business_name is idempotent: normalizing a normalized name
\* gives the same name, for every input string.
C30_NormalizeIdempotent ==
    cpc = "normalize_business_name" => normalize_business_name(out) = out

====
